---- MODULE Spec2Model ----
(***************************************************************************)
(* State-machine model of the video generation studio:                     *)
(*   - VideoGenerator (src/lib/auth-client.ts): form state, the provider   *)
(*     reconciliation effect, the cost and prompt memos, handleGenerate;   *)
(*   - proxy (src/proxy.ts): the route gate;                               *)
(*   - getServerSession (src/unnamed/part_001).                            *)
(* Numbers are integers (money in cents), strings that the code inspects   *)
(* character by character (prompt, pathname) are sequences of one-character *)
(* strings.                                                                *)
(***************************************************************************)
EXTENDS Integers, Sequences, FiniteSets, TLC

VARIABLES
    providers,          \* useMemo(() => getAllProviders(), [])
    provider,           \* useState: selected provider id
    prompt,             \* useState: sequence of characters
    negativePrompt,     \* useState
    numberOfVideos,     \* useState
    aspectRatio,        \* useState
    durationSeconds,    \* useState
    conditioningImage,  \* useState: File | null
    veo3Model,          \* useState
    veo3Resolution,     \* useState
    veo3Audio,          \* useState
    isGenerating,       \* useState
    message,            \* useState
    videos,             \* useState
    generationMeta,     \* useState: GenerationMeta | null
    sessionState,       \* useSession(): "pending" | "none" | "session"
    mounted,            \* the reconciliation effect has run at least once
    inflight,           \* fetch('/api/generate-video') calls not yet resolved
    requestsSent,       \* number of fetch calls issued so far
    submissions,        \* number of handleGenerate calls that passed validation
    now,                \* Date.now()
    costMemo,           \* useMemo: estimatedCostPerVideo, estimatedTotalCost
    insightsMemo,       \* useMemo: promptInsights
    proxyPc,            \* proxy: "idle" | "reading" | "done"
    req,                \* proxy: the NextRequest being handled
    cookieRead,         \* proxy: outcome of getCookieCache(req)
    resp,               \* proxy: the response returned for req
    edits,              \* form change events handled so far
    hops,               \* redirects followed by the client in the current chain
    serverSession       \* getServerSession: the last lookup and what was returned

formVars == <<provider, prompt, negativePrompt, numberOfVideos, aspectRatio,
              durationSeconds, conditioningImage, veo3Model, veo3Resolution,
              veo3Audio>>
genVars == <<isGenerating, message, videos, generationMeta, inflight,
             requestsSent, submissions, now>>
memoVars == <<costMemo, insightsMemo>>
proxyVars == <<proxyPc, req, cookieRead, resp, hops, serverSession>>
vars == <<providers, formVars, genVars, sessionState, mounted, edits, memoVars,
          proxyVars>>

\* ---------------------------------------------------------------- bounds
MaxCount == 3          \* largest number the user types into number-of-videos
MaxTypedDuration == 6  \* largest number the user types into duration-seconds
MaxSubmissions == 2    \* accepted submissions per behaviour
MaxEdits == 3          \* form change events per behaviour
MaxWords == 31         \* longest prompt (in words) given to promptInsights
MaxHops == 2           \* redirects a client follows before giving up

\* ------------------------------------------------------- small utilities
Null == "null"
Absent == "undefined"

\* Has(o, k): the object o carries the key k
Has(o, k) == k \in DOMAIN o

Min(a, b) == IF a < b THEN a ELSE b
Max(a, b) == IF a > b THEN a ELSE b

\* Array.prototype.includes
Includes(arr, x) == \E i \in 1..Len(arr) : arr[i] = x

\* ------------------------------------------------------ provider catalog
\* VideoProvider as the component reads it (the fields it never reads are
\* left out).  maxVideos = 0 stands for a falsy (absent or 0) maxVideos.
Provider(id, cps, maxDur, ratios, multi, maxV, img, neg, durs) ==
    [id |-> id,
     pricing |-> [costPerSecond |-> cps],
     maxDuration |-> maxDur,
     supportedAspectRatios |-> ratios,
     capabilities |-> [supportsMultipleVideos |-> multi,
                       maxVideos |-> maxV,
                       supportsConditioningImage |-> img,
                       supportsNegativePrompt |-> neg,
                       supportedDurations |-> durs]]

\* getAllProviders(): the catalog the studio ships with.
getAllProviders ==
    << Provider("veo-3", 5, 5, <<"16:9", "9:16">>, TRUE, 2, TRUE, TRUE, <<>>),
       Provider("runway", 10, 6, <<"16:9">>, FALSE, 1, FALSE, FALSE, <<4, 6>>) >>

\* What find() yields when no provider matches.
NoProvider == [id |-> Absent]

\* providers.find((p) => p.id === provider)
selectedProviderOf(ps, pid) ==
    IF \E i \in 1..Len(ps) : ps[i].id = pid
    THEN ps[CHOOSE i \in 1..Len(ps) :
                /\ ps[i].id = pid
                /\ \A j \in 1..(i - 1) : ps[j].id # pid]
    ELSE NoProvider

selectedProvider == selectedProviderOf(providers, provider)

\* ------------------------------------------- reconciliation (useEffect)
\* Variant of ReconcileVideos that forgets the upper clamp.
ReconcileVideosNoUpperClamp(P, prev) ==
    IF ~P.capabilities.supportsMultipleVideos THEN 1 ELSE Max(1, prev)

\* Variant of ReconcileVideos that clamps to maxVideos without looking at
\* supportsMultipleVideos.
ReconcileVideosIgnoresMultiFlag(P, prev) ==
    LET maxVideos == IF P.capabilities.maxVideos # 0
                     THEN P.capabilities.maxVideos ELSE 1
    IN  Min(Max(1, prev), maxVideos)

\* setNumberOfVideos((prev) => ...)
ReconcileVideos(P, prev) ==
    IF ~P.capabilities.supportsMultipleVideos
    THEN 1
    ELSE LET maxVideos == IF P.capabilities.maxVideos # 0
                          THEN P.capabilities.maxVideos ELSE 1
         IN  Min(Max(1, prev), maxVideos)

\* setConditioningImage((prev) => ...)
ReconcileImage(P, prev) ==
    IF P.capabilities.supportsConditioningImage THEN prev ELSE Null

\* Variant of ReconcileNegativePrompt that never clears the text.
ReconcileNegativePromptKeeps(P, prev) == prev

\* setNegativePrompt((prev) => ...)
ReconcileNegativePrompt(P, prev) ==
    IF P.capabilities.supportsNegativePrompt THEN prev ELSE <<>>

\* setAspectRatio((prev) => ...)
ReconcileAspectRatio(P, prev) ==
    IF Includes(P.supportedAspectRatios, prev)
    THEN prev
    ELSE IF Len(P.supportedAspectRatios) > 0
         THEN P.supportedAspectRatios[1] ELSE "16:9"

\* Variant of ReconcileDuration that also clamps the first allowed value.
ReconcileDurationClampsFirst(P, prev) ==
    LET allowedDurations == P.capabilities.supportedDurations
    IN  IF Len(allowedDurations) > 0 /\ ~Includes(allowedDurations, prev)
        THEN Min(allowedDurations[1], P.maxDuration)
        ELSE Min(prev, P.maxDuration)

\* setDurationSeconds((prev) => ...)
ReconcileDuration(P, prev) ==
    LET allowedDurations == P.capabilities.supportedDurations
    IN  IF Len(allowedDurations) > 0 /\ ~Includes(allowedDurations, prev)
        THEN allowedDurations[1]
        ELSE Min(prev, P.maxDuration)

\* The body of the effect, run against the provider P (Absent: early return).
Reconcile(P) ==
    IF P = NoProvider
    THEN UNCHANGED <<numberOfVideos, conditioningImage, negativePrompt,
                     aspectRatio, durationSeconds>>
    ELSE /\ numberOfVideos' = ReconcileVideos(P, numberOfVideos)
         /\ conditioningImage' = ReconcileImage(P, conditioningImage)
         /\ negativePrompt' = ReconcileNegativePrompt(P, negativePrompt)
         /\ aspectRatio' = ReconcileAspectRatio(P, aspectRatio)
         /\ durationSeconds' = ReconcileDuration(P, durationSeconds)


\* ------------------------------------------------------- cost estimator
\* calculateCost(provider, durationSeconds) of @/lib/video-providers
calculateCost(P, d) == P.pricing.costPerSecond * d

estimatedCostPerVideoOf(P, d) ==
    IF P = NoProvider THEN 0 ELSE calculateCost(P, d)

\* Variant of estimatedTotalCostOf without the Math.max(1, ...) guard.
estimatedTotalCostUnguarded(P, d, n) ==
    estimatedCostPerVideoOf(P, d) * n

estimatedTotalCostOf(P, d, n) ==
    estimatedCostPerVideoOf(P, d) * Max(1, n)

estimatedCostPerVideo == estimatedCostPerVideoOf(selectedProvider, durationSeconds)
estimatedTotalCost ==
    estimatedTotalCostOf(selectedProvider, durationSeconds, numberOfVideos)

\* ------------------------------------------------ prompt quality memo
IsSpace(c) == c \in {" ", "\t", "\n"}

RECURSIVE TrimStart(_)
TrimStart(s) ==
    IF s # <<>> /\ IsSpace(Head(s)) THEN TrimStart(Tail(s)) ELSE s

RECURSIVE TrimEnd(_)
TrimEnd(s) ==
    IF s # <<>> /\ IsSpace(s[Len(s)])
    THEN TrimEnd(SubSeq(s, 1, Len(s) - 1)) ELSE s

\* Variant of Trim that strips nothing.
TrimNothing(s) == s

\* String.prototype.trim
Trim(s) == TrimEnd(TrimStart(s))

\* s.split(/\s+/): the pieces between maximal runs of whitespace; a run at
\* either end leaves an empty piece there.
RECURSIVE SplitWhitespace(_)
SplitWhitespace(s) ==
    IF \A i \in 1..Len(s) : ~IsSpace(s[i])
    THEN <<s>>
    ELSE LET first == CHOOSE i \in 1..Len(s) :
                          /\ IsSpace(s[i])
                          /\ \A k \in 1..(i - 1) : ~IsSpace(s[k])
             after == CHOOSE j \in (first + 1)..(Len(s) + 1) :
                          /\ j = Len(s) + 1 \/ ~IsSpace(s[j])
                          /\ \A k \in first..(j - 1) : IsSpace(s[k])
         IN  <<SubSeq(s, 1, first - 1)>> \o
             SplitWhitespace(SubSeq(s, after, Len(s)))

\* .filter(Boolean) on an array of strings: drops the empty ones
FilterNonEmpty(arr) == SelectSeq(arr, LAMBDA w : w # <<>>)

CountWords(p) ==
    LET trimmed == Trim(p)
    IN  IF trimmed # <<>>
        THEN Len(FilterNonEmpty(SplitWhitespace(trimmed)))
        ELSE 0

\* Variant of promptInsightsOf whose second threshold is off by one.
promptInsightsOffByOne(p) ==
    LET words == CountWords(p)
    IN  IF words = 0
        THEN [words |-> words, quality |-> "Add a descriptive prompt", score |-> 0]
        ELSE IF words <= 12
        THEN [words |-> words, quality |-> "Needs more detail", score |-> 1]
        ELSE IF words < 30
        THEN [words |-> words, quality |-> "Great start", score |-> 2]
        ELSE [words |-> words, quality |-> "Production ready", score |-> 3]

promptInsightsOf(p) ==
    LET words == CountWords(p)
    IN  IF words = 0
        THEN [words |-> words, quality |-> "Add a descriptive prompt", score |-> 0]
        ELSE IF words < 12
        THEN [words |-> words, quality |-> "Needs more detail", score |-> 1]
        ELSE IF words < 30
        THEN [words |-> words, quality |-> "Great start", score |-> 2]
        ELSE [words |-> words, quality |-> "Production ready", score |-> 3]

promptInsights == promptInsightsOf(prompt)

\* ------------------------------------------------------------ messages
PromptRequiredText == "Please enter a prompt before generating."
GeneratingText == "Generating..."
SuccessText == "Video generated successfully!"
FailedText == "Failed to generate video. Please try again."

\* Intl.NumberFormat('en-US', {style: 'currency', currency: 'USD',
\* minimumFractionDigits: 2}).format, on an amount held in cents
formatCurrency(cents) ==
    LET dollars == cents \div 100
        rest == cents % 100
    IN  "$" \o ToString(dollars) \o "." \o
        (IF rest < 10 THEN "0" ELSE "") \o ToString(rest)

SuccessWithCostText(cents) ==
    "Video generated successfully * " \o formatCurrency(cents)

\* --------------------------------------------------------- session gate
\* The component returns the spinner while isPending and the sign-in card
\* while there is no session; the form (and its handlers) exists otherwise.
Screen ==
    IF sessionState = "pending" THEN "spinner"
    ELSE IF sessionState = "none" THEN "signin"
    ELSE "form"

\* Variant of FormVisible that shows the form whatever the session is.
FormVisibleWithoutSession == mounted

FormVisible == mounted /\ Screen = "form"

\* Variant of SessionChange that abandons a generation in progress when the
\* session value changes.
SessionChangeCancels ==
    /\ \/ sessionState = "pending" /\ sessionState' \in {"none", "session"}
       \/ sessionState = "session" /\ sessionState' = "none"
       \/ sessionState = "none" /\ sessionState' = "session"
    /\ isGenerating' = FALSE
    /\ UNCHANGED <<providers, edits, formVars, message, videos, generationMeta,
                   inflight, requestsSent, submissions, now, mounted, memoVars,
                   proxyVars>>

\* useSession() delivers a new value
SessionChange ==
    /\ \/ sessionState = "pending" /\ sessionState' \in {"none", "session"}
       \/ sessionState = "session" /\ sessionState' = "none"
       \/ sessionState = "none" /\ sessionState' = "session"
    /\ UNCHANGED <<providers, edits, formVars, genVars, mounted, memoVars, proxyVars>>

\* ------------------------------------------------------- form handlers
\* One run of the reconciliation effect against the selected provider.
RunEffect ==
    /\ mounted' = TRUE
    /\ Reconcile(selectedProvider)
    /\ UNCHANGED <<providers, edits, provider, prompt, veo3Model, veo3Resolution,
                   veo3Audio, genVars, sessionState, memoVars, proxyVars>>

\* First run of the effect, after the first commit.
MountEffect == ~mounted /\ RunEffect

\* provider select onChange, and the effect its re-render triggers
SelectProvider(p) ==
    /\ FormVisible
    /\ edits < MaxEdits
    /\ edits' = edits + 1
    /\ p # provider
    /\ provider' = p
    /\ Reconcile(selectedProviderOf(providers, p))
    /\ UNCHANGED <<providers, prompt, veo3Model, veo3Resolution, veo3Audio,
                   genVars, sessionState, mounted, memoVars, proxyVars>>

\* The values the user types into the prompt textarea.
TypedPrompts == { <<>>, <<" ">>, <<"a">> }

SetPromptInput(v) ==
    /\ FormVisible
    /\ edits < MaxEdits
    /\ edits' = edits + 1
    /\ prompt' = v
    /\ UNCHANGED <<providers, provider, negativePrompt, numberOfVideos,
                   aspectRatio, durationSeconds, conditioningImage, veo3Model,
                   veo3Resolution, veo3Audio, genVars, sessionState, mounted,
                   memoVars, proxyVars>>

TypedNegativePrompts == { <<>>, <<"x">> }

SetNegativePromptInput(v) ==
    /\ FormVisible
    /\ edits < MaxEdits
    /\ edits' = edits + 1
    /\ selectedProvider # NoProvider
    /\ selectedProvider.capabilities.supportsNegativePrompt
    /\ negativePrompt' = v
    /\ UNCHANGED <<providers, provider, prompt, numberOfVideos,
                   aspectRatio, durationSeconds, conditioningImage, veo3Model,
                   veo3Resolution, veo3Audio, genVars, sessionState, mounted,
                   memoVars, proxyVars>>

\* number-of-videos input onChange
SetNumberOfVideosInput(v) ==
    /\ FormVisible
    /\ edits < MaxEdits
    /\ edits' = edits + 1
    /\ selectedProvider # NoProvider
    /\ selectedProvider.capabilities.supportsMultipleVideos
    /\ numberOfVideos' = Max(1, v)
    /\ UNCHANGED <<providers, provider, prompt, negativePrompt,
                   aspectRatio, durationSeconds, conditioningImage, veo3Model,
                   veo3Resolution, veo3Audio, genVars, sessionState, mounted,
                   memoVars, proxyVars>>

\* aspect-ratio select onChange: the options are the provider's ratios
SetAspectRatioInput(r) ==
    /\ FormVisible
    /\ edits < MaxEdits
    /\ edits' = edits + 1
    /\ selectedProvider # NoProvider
    /\ Includes(selectedProvider.supportedAspectRatios, r)
    /\ aspectRatio' = r
    /\ UNCHANGED <<providers, provider, prompt, negativePrompt, numberOfVideos,
                   durationSeconds, conditioningImage, veo3Model,
                   veo3Resolution, veo3Audio, genVars, sessionState, mounted,
                   memoVars, proxyVars>>

\* duration select onChange (provider with discrete durations)
SelectDuration(d) ==
    /\ FormVisible
    /\ edits < MaxEdits
    /\ edits' = edits + 1
    /\ selectedProvider # NoProvider
    /\ Includes(selectedProvider.capabilities.supportedDurations, d)
    /\ durationSeconds' = d
    /\ UNCHANGED <<providers, provider, prompt, negativePrompt, numberOfVideos,
                   aspectRatio, conditioningImage, veo3Model,
                   veo3Resolution, veo3Audio, genVars, sessionState, mounted,
                   memoVars, proxyVars>>

\* duration number input onChange (provider without discrete durations)
TypeDuration(v) ==
    /\ FormVisible
    /\ edits < MaxEdits
    /\ edits' = edits + 1
    /\ \/ selectedProvider = NoProvider
       \/ /\ selectedProvider # NoProvider
          /\ Len(selectedProvider.capabilities.supportedDurations) = 0
    /\ durationSeconds' = Max(3, v)
    /\ UNCHANGED <<providers, provider, prompt, negativePrompt, numberOfVideos,
                   aspectRatio, conditioningImage, veo3Model,
                   veo3Resolution, veo3Audio, genVars, sessionState, mounted,
                   memoVars, proxyVars>>

\* handleImageChange: file is e.target.files?.[0] (Absent: nothing chosen)
handleImageChange(file) ==
    /\ FormVisible
    /\ edits < MaxEdits
    /\ edits' = edits + 1
    /\ selectedProvider # NoProvider
    /\ selectedProvider.capabilities.supportsConditioningImage
    /\ conditioningImage' = IF file # Absent THEN file ELSE conditioningImage
    /\ UNCHANGED <<providers, provider, prompt, negativePrompt, numberOfVideos,
                   aspectRatio, durationSeconds, veo3Model,
                   veo3Resolution, veo3Audio, genVars, sessionState, mounted,
                   memoVars, proxyVars>>

\* the Remove button next to the attached image
RemoveImage ==
    /\ FormVisible
    /\ edits < MaxEdits
    /\ edits' = edits + 1
    /\ selectedProvider # NoProvider
    /\ selectedProvider.capabilities.supportsConditioningImage
    /\ conditioningImage # Null
    /\ conditioningImage' = Null
    /\ UNCHANGED <<providers, provider, prompt, negativePrompt, numberOfVideos,
                   aspectRatio, durationSeconds, veo3Model,
                   veo3Resolution, veo3Audio, genVars, sessionState, mounted,
                   memoVars, proxyVars>>

\* the three veo-3 controls, rendered when provider === 'veo-3'
SetVeo3Options(model, resolution, audio) ==
    /\ FormVisible
    /\ edits < MaxEdits
    /\ edits' = edits + 1
    /\ provider = "veo-3"
    /\ \/ veo3Model' = model /\ UNCHANGED <<veo3Resolution, veo3Audio>>
       \/ veo3Resolution' = resolution /\ UNCHANGED <<veo3Model, veo3Audio>>
       \/ veo3Audio' = audio /\ UNCHANGED <<veo3Model, veo3Resolution>>
    /\ UNCHANGED <<providers, provider, prompt, negativePrompt, numberOfVideos,
                   aspectRatio, durationSeconds, conditioningImage,
                   genVars, sessionState, mounted, memoVars, proxyVars>>

\* ---------------------------------------------------- handleGenerate
\* Boolean.prototype.toString
BoolToString(b) == IF b THEN "true" ELSE "false"

\* The FormData assembled by handleGenerate, as a map from field name to
\* the appended value.
BasePayload ==
    [prompt |-> prompt,
     negativePrompt |-> negativePrompt,
     numberOfVideos |-> ToString(numberOfVideos),
     aspectRatio |-> aspectRatio,
     durationSeconds |-> ToString(durationSeconds),
     provider |-> provider]

Veo3Fields ==
    [veo3Model |-> veo3Model,
     veo3Resolution |-> veo3Resolution,
     veo3Audio |-> BoolToString(veo3Audio)]

ImageField == [conditioningImage |-> conditioningImage]

\* Variant of BuildFormData that appends the veo-3 fields for any provider.
BuildFormDataAlwaysVeo3 ==
    BasePayload
      @@ Veo3Fields
      @@ (IF conditioningImage # Null THEN ImageField ELSE <<>>)

BuildFormData ==
    BasePayload
      @@ (IF provider = "veo-3" THEN Veo3Fields ELSE <<>>)
      @@ (IF conditioningImage # Null THEN ImageField ELSE <<>>)

\* Variant of GenerateEnabled for a button that is never disabled.
GenerateAlwaysEnabled == FormVisible

\* The Generate button: disabled={isGenerating}
GenerateEnabled == FormVisible /\ ~isGenerating

\* handleGenerate with a prompt that is empty after trim(): early return
GenerateRejected ==
    /\ GenerateEnabled
    /\ Trim(prompt) = <<>>
    /\ message' = PromptRequiredText
    /\ UNCHANGED <<providers, edits, formVars, isGenerating, videos, generationMeta,
                   inflight, requestsSent, submissions, now, sessionState,
                   mounted, memoVars, proxyVars>>

\* Variant of GenerateSubmitted that keeps the previous videos and merges the
\* new start into the previous generationMeta.
GenerateSubmittedKeepsResults ==
    /\ GenerateEnabled
    /\ Trim(prompt) # <<>>
    /\ submissions < MaxSubmissions
    /\ isGenerating' = TRUE
    /\ message' = GeneratingText
    /\ UNCHANGED videos
    /\ LET startedAt == now
       IN  /\ generationMeta' =
                  [provider |-> provider, startedAt |-> startedAt] @@
                  (IF Has(generationMeta, "null") THEN <<>> ELSE generationMeta)
           /\ inflight' = inflight \cup
                   {[id |-> requestsSent + 1,
                     url |-> "/api/generate-video",
                     body |-> BuildFormData,
                     provider |-> provider,
                     startedAt |-> startedAt]}
    /\ requestsSent' = requestsSent + 1
    /\ submissions' = submissions + 1
    /\ now' = now + 1
    /\ UNCHANGED <<providers, edits, formVars, sessionState, mounted, memoVars,
                   proxyVars>>

\* Variant of GenerateSubmitted that does not mark the form as generating.
GenerateSubmittedNotBusy ==
    /\ GenerateEnabled
    /\ Trim(prompt) # <<>>
    /\ submissions < MaxSubmissions
    /\ UNCHANGED isGenerating
    /\ message' = GeneratingText
    /\ videos' = <<>>
    /\ LET startedAt == now
       IN  /\ generationMeta' = [provider |-> provider, startedAt |-> startedAt]
           /\ inflight' = inflight \cup
                   {[id |-> requestsSent + 1,
                     url |-> "/api/generate-video",
                     body |-> BuildFormData,
                     provider |-> provider,
                     startedAt |-> startedAt]}
    /\ requestsSent' = requestsSent + 1
    /\ submissions' = submissions + 1
    /\ now' = now + 1
    /\ UNCHANGED <<providers, edits, formVars, sessionState, mounted, memoVars,
                   proxyVars>>

\* handleGenerate up to the await of fetch()
GenerateSubmitted ==
    /\ GenerateEnabled
    /\ Trim(prompt) # <<>>
    /\ submissions < MaxSubmissions
    /\ isGenerating' = TRUE
    /\ message' = GeneratingText
    /\ videos' = <<>>
    /\ LET startedAt == now
       IN  /\ generationMeta' = [provider |-> provider, startedAt |-> startedAt]
           /\ inflight' = inflight \cup
                   {[id |-> requestsSent + 1,
                     url |-> "/api/generate-video",
                     body |-> BuildFormData,
                     provider |-> provider,
                     startedAt |-> startedAt]}
    /\ requestsSent' = requestsSent + 1
    /\ submissions' = submissions + 1
    /\ now' = now + 1
    /\ UNCHANGED <<providers, edits, formVars, sessionState, mounted, memoVars,
                   proxyVars>>

handleGenerate == GenerateRejected \/ GenerateSubmitted

\* What fetch() and response.json() can produce for one request.
JsonBodies ==
    { [videos |-> <<"a.mp4", "b.mp4">>, provider |-> "runway", cost |-> 150],
      [videos |-> <<"a.mp4", "b.mp4">>, cost |-> 150],
      [videos |-> <<"a.mp4">>, cost |-> 0],
      [videos |-> <<"a.mp4">>],
      [provider |-> "veo-3"] }

Outcomes ==
    { [kind |-> "rejected"] }                       \* fetch() throws
      \cup { [kind |-> "response", ok |-> FALSE] }    \* non-2xx
      \cup { [kind |-> "response", ok |-> TRUE, json |-> "SyntaxError"] }
      \cup { [kind |-> "response", ok |-> TRUE, json |-> "parsed", result |-> b] :
                b \in JsonBodies }

\* The Error that reaches the catch block, "none" when nothing is thrown.
ThrownBy(o) ==
    IF o.kind = "rejected" THEN "Failed to fetch"
    ELSE IF ~o.ok THEN "Failed to generate video"
    ELSE IF o.json # "parsed" THEN "Unexpected token in JSON"
    ELSE "none"

\* Variant of SuccessMeta that never records the returned cost.
SuccessMetaWithoutCost(r, result) ==
    [provider |-> IF Has(result, "provider") THEN result.provider ELSE r.provider,
     startedAt |-> r.startedAt,
     completedAt |-> now]

\* generationMeta written after a parsed success response
SuccessMeta(r, result) ==
    [provider |-> IF Has(result, "provider") THEN result.provider ELSE r.provider,
     startedAt |-> r.startedAt,
     completedAt |-> now]
      @@ (IF Has(result, "cost") THEN [cost |-> result.cost] ELSE <<>>)

\* generationMeta written by the catch block
FailureMeta(r, error) ==
    [provider |-> r.provider,
     startedAt |-> r.startedAt,
     completedAt |-> now,
     error |-> error]

\* Variant of GenerateResolved without the finally block: a failure leaves
\* isGenerating set.
GenerateResolvedNoFinally(r, o) ==
    /\ r \in inflight
    /\ inflight' = inflight \ {r}
    /\ IF ThrownBy(o) = "none"
       THEN /\ videos' = IF Has(o.result, "videos") THEN o.result.videos ELSE <<>>
            /\ generationMeta' = SuccessMeta(r, o.result)
            /\ message' = IF Has(o.result, "cost") /\ o.result.cost # 0
                          THEN SuccessWithCostText(o.result.cost)
                          ELSE SuccessText
            /\ isGenerating' = FALSE
       ELSE /\ generationMeta' = FailureMeta(r, ThrownBy(o))
            /\ message' = FailedText
            /\ UNCHANGED <<videos, isGenerating>>
    /\ now' = now + 1
    /\ UNCHANGED <<providers, edits, formVars, requestsSent, submissions,
                   sessionState, mounted, memoVars, proxyVars>>

\* handleGenerate from the resolution of fetch() to the end of finally
GenerateResolved(r, o) ==
    /\ r \in inflight
    /\ inflight' = inflight \ {r}
    /\ IF ThrownBy(o) = "none"
       THEN /\ videos' = IF Has(o.result, "videos") THEN o.result.videos ELSE <<>>
            /\ generationMeta' = SuccessMeta(r, o.result)
            /\ message' = IF Has(o.result, "cost") /\ o.result.cost # 0
                          THEN SuccessWithCostText(o.result.cost)
                          ELSE SuccessText
       ELSE /\ generationMeta' = FailureMeta(r, ThrownBy(o))
            /\ message' = FailedText
            /\ UNCHANGED videos
    /\ isGenerating' = FALSE
    /\ now' = now + 1
    /\ UNCHANGED <<providers, edits, formVars, requestsSent, submissions,
                   sessionState, mounted, memoVars, proxyVars>>

\* ------------------------------------------------------- memo evaluation
StaleMemo == [stale |-> TRUE]

\* A render evaluates the two cost memos.
EvalCostMemo ==
    /\ costMemo = StaleMemo
    /\ costMemo' = [perVideo |-> estimatedCostPerVideo,
                    total |-> estimatedTotalCost]
    /\ UNCHANGED <<providers, edits, formVars, genVars, sessionState, mounted,
                   insightsMemo, proxyVars>>

\* A render evaluates the promptInsights memo.
EvalInsightsMemo ==
    /\ insightsMemo = StaleMemo
    /\ insightsMemo' = promptInsights
    /\ UNCHANGED <<providers, edits, formVars, genVars, sessionState, mounted,
                   costMemo, proxyVars>>

\* ------------------------------------------------------------ route gate
\* String.prototype.startsWith
StartsWith(s, prefix) ==
    /\ Len(s) >= Len(prefix)
    /\ SubSeq(s, 1, Len(prefix)) = prefix

Slash == <<"/">>
AuthSeg == <<"a", "u", "t", "h">>
ApiSeg == <<"a", "p", "i">>
SigninSeg == <<"s", "i", "g", "n", "i", "n">>
GenerateVideoSeg == <<"g", "e", "n", "e", "r", "a", "t", "e", "-", "v", "i", "d", "e", "o">>
NextSeg == <<"_", "n", "e", "x", "t">>
StaticSeg == <<"s", "t", "a", "t", "i", "c">>
ImageSeg == <<"i", "m", "a", "g", "e">>
FaviconSeg == <<"f", "a", "v", "i", "c", "o", "n", ".", "i", "c", "o">>
StudioSeg == <<"s", "t", "u", "d", "i", "o">>

AuthPrefix == Slash \o AuthSeg \o Slash                      \* '/auth/'
RootPath == Slash                                             \* '/'
ApiAuthPrefix == Slash \o ApiSeg \o Slash \o AuthSeg \o Slash  \* '/api/auth/'
GenerateVideoPrefix == Slash \o ApiSeg \o Slash \o GenerateVideoSeg
SignInPath == Slash \o AuthSeg \o Slash \o SigninSeg           \* '/auth/signin'

\* config.matcher: '/((?!_next/static|_next/image|favicon.ico).*)'
MatcherMatches(pathname) ==
    /\ StartsWith(pathname, Slash)
    /\ ~StartsWith(pathname, Slash \o NextSeg \o Slash \o StaticSeg)
    /\ ~StartsWith(pathname, Slash \o NextSeg \o Slash \o ImageSeg)
    /\ ~StartsWith(pathname, Slash \o FaviconSeg)

\* Variant of IsPublicPath whose allow-list lacks the /auth/ pages.
IsPublicPathWithoutAuthPages(pathname) ==
    \/ pathname = RootPath
    \/ StartsWith(pathname, ApiAuthPrefix)

\* The first if of proxy: the public pages
IsPublicPath(pathname) ==
    \/ StartsWith(pathname, AuthPrefix)
    \/ pathname = RootPath
    \/ StartsWith(pathname, ApiAuthPrefix)

\* const isLoggedIn = !!session?.user
IsLoggedIn(session) == session = "session-with-user"

NextResponse == [kind |-> "next"]
RedirectResponse(location) == [kind |-> "redirect", location |-> location]
ErrorResponse == [kind |-> "error"]
NoResponse == [kind |-> "none"]

\* Variant of ProxyDecision that protects only the generation endpoint.
ProxyDecisionOnlyGenerate(pathname, session) ==
    IF IsPublicPath(pathname) THEN NextResponse
    ELSE IF StartsWith(pathname, GenerateVideoPrefix) /\ ~IsLoggedIn(session)
    THEN RedirectResponse(SignInPath)
    ELSE NextResponse

\* proxy(req) after getCookieCache(req) has returned session
ProxyDecision(pathname, session) ==
    IF IsPublicPath(pathname) THEN NextResponse
    ELSE IF StartsWith(pathname, GenerateVideoPrefix) /\ ~IsLoggedIn(session)
    THEN RedirectResponse(SignInPath)
    ELSE IF ~IsLoggedIn(session) THEN RedirectResponse(SignInPath)
    ELSE NextResponse

\* The pathnames clients ask for.
RequestPaths ==
    { RootPath,
      Slash \o AuthSeg,
      AuthPrefix,
      SignInPath,
      Slash \o AuthSeg \o Slash \o <<"e", "r", "r", "o", "r">>,
      Slash \o AuthSeg \o <<"x">>,
      Slash \o <<"A", "u", "t", "h">> \o Slash,
      Slash \o <<"x">> \o AuthPrefix,
      Slash \o ApiSeg,
      Slash \o ApiSeg \o Slash \o AuthSeg,
      ApiAuthPrefix,
      ApiAuthPrefix \o <<"c", "a", "l", "l", "b", "a", "c", "k">>,
      Slash \o ApiSeg \o Slash \o AuthSeg \o <<"x">>,
      GenerateVideoPrefix,
      GenerateVideoPrefix \o Slash \o <<"1">>,
      Slash \o ApiSeg \o Slash \o <<"j", "o", "b", "s">>,
      Slash \o StudioSeg,
      Slash \o StudioSeg \o Slash,
      Slash \o Slash,
      Slash \o SigninSeg,
      Slash \o NextSeg \o Slash \o StaticSeg \o Slash \o <<"a", ".", "j", "s">>,
      Slash \o NextSeg \o Slash \o ImageSeg,
      Slash \o NextSeg \o Slash \o <<"d", "a", "t", "a">>,
      Slash \o FaviconSeg }

\* What getCookieCache(req) can do.
CookieReads == {"null", "session-without-user", "session-with-user", "throws"}

\* The framework receives a request; the proxy runs up to its await when
\* the matcher selects the path, otherwise the request bypasses it.
ProxyReceive(pathname) ==
    /\ proxyPc \in {"idle", "done"}
    /\ req' = [pathname |-> pathname]
    /\ hops' = 0
    /\ cookieRead' = "pending"
    /\ IF MatcherMatches(pathname)
       THEN proxyPc' = "reading" /\ resp' = NoResponse
       ELSE proxyPc' = "done" /\ resp' = NextResponse
    /\ UNCHANGED <<providers, edits, formVars, genVars, sessionState, mounted, memoVars,
                   serverSession>>

\* getCookieCache settles and proxy runs to its return (or rejects).
ProxyReturn(read) ==
    /\ proxyPc = "reading"
    /\ proxyPc' = "done"
    /\ cookieRead' = read
    /\ resp' = IF read = "throws" THEN ErrorResponse
               ELSE ProxyDecision(req.pathname, read)
    /\ UNCHANGED <<providers, edits, formVars, genVars, sessionState, mounted, memoVars,
                   req, hops, serverSession>>

\* What headers() and auth.api.getSession can do inside getServerSession.
SessionLookups == {"session", "null", "throws"}

\* getServerSession(): the session the lookup yields, null when it throws
getServerSession(lookup) ==
    /\ serverSession' = [lookup |-> lookup,
                         returned |-> IF lookup = "throws" THEN Null
                                      ELSE lookup]
    /\ UNCHANGED <<providers, edits, formVars, genVars, sessionState, mounted,
                   memoVars, proxyPc, req, cookieRead, resp, hops>>

\* The client follows a redirect by requesting its location.
FollowRedirect ==
    /\ proxyPc = "done"
    /\ resp.kind = "redirect"
    /\ hops < MaxHops
    /\ req' = [pathname |-> resp.location]
    /\ hops' = hops + 1
    /\ cookieRead' = "pending"
    /\ IF MatcherMatches(resp.location)
       THEN proxyPc' = "reading" /\ resp' = NoResponse
       ELSE proxyPc' = "done" /\ resp' = NextResponse
    /\ UNCHANGED <<providers, edits, formVars, genVars, sessionState, mounted, memoVars,
                   serverSession>>

\* ------------------------------------------------------- initial states
\* The useState initialisers of VideoGenerator (provider apart).
FormDefaults ==
    /\ prompt = <<>>
    /\ negativePrompt = <<>>
    /\ numberOfVideos = 1
    /\ aspectRatio = "16:9"
    /\ durationSeconds = 5
    /\ conditioningImage = Null
    /\ veo3Model = "veo3-fast"
    /\ veo3Resolution = "720p"
    /\ veo3Audio = TRUE

\* useState(() => providers[0]?.id ?? 'veo-3')
InitialProvider(ps) == IF Len(ps) > 0 THEN ps[1].id ELSE "veo-3"

NullMeta == [null |-> TRUE]

GenInit ==
    /\ isGenerating = FALSE
    /\ message = ""
    /\ videos = <<>>
    /\ generationMeta = NullMeta
    /\ inflight = {}
    /\ requestsSent = 0
    /\ submissions = 0
    /\ now = 0

MemoInit ==
    /\ costMemo = StaleMemo
    /\ insightsMemo = StaleMemo

ProxyInit ==
    /\ proxyPc = "idle"
    /\ req = [pathname |-> <<>>]
    /\ cookieRead = "pending"
    /\ resp = NoResponse
    /\ hops = 0
    /\ serverSession = [lookup |-> "none", returned |-> "unread"]

\* ------------------------------------------- the studio (VideoGenerator)
Init ==
    /\ providers = getAllProviders
    /\ provider = InitialProvider(providers)
    /\ FormDefaults
    /\ GenInit
    /\ sessionState = "pending"
    /\ mounted = FALSE
    /\ edits = 0
    /\ MemoInit
    /\ ProxyInit

Next ==
    \/ MountEffect
    \/ SessionChange
    \/ \E p \in {providers[i].id : i \in 1..Len(providers)} : SelectProvider(p)
    \/ \E v \in TypedPrompts : SetPromptInput(v)
    \/ \E v \in TypedNegativePrompts : SetNegativePromptInput(v)
    \/ \E v \in 0..MaxCount : SetNumberOfVideosInput(v)
    \/ \E r \in {"16:9", "9:16"} : SetAspectRatioInput(r)
    \/ \E d \in 2..MaxTypedDuration : SelectDuration(d)
    \/ \E v \in 2..MaxTypedDuration : TypeDuration(v)
    \/ \E f \in {Absent, "ref.png"} : handleImageChange(f)
    \/ RemoveImage
    \/ \E m \in {"veo3-fast", "veo3-quality"}, r \in {"720p", "1080p"},
          a \in BOOLEAN : SetVeo3Options(m, r, a)
    \/ GenerateRejected
    \/ GenerateSubmitted
    \/ \E r \in inflight, o \in Outcomes : GenerateResolved(r, o)

Spec == Init /\ [][Next]_vars

\* --------------------------------------------------- the route gate alone
InitProxy ==
    /\ providers = getAllProviders
    /\ provider = InitialProvider(providers)
    /\ FormDefaults
    /\ GenInit
    /\ sessionState = "pending"
    /\ mounted = FALSE
    /\ edits = 0
    /\ MemoInit
    /\ ProxyInit

NextProxy ==
    \/ \E pathname \in RequestPaths : ProxyReceive(pathname)
    \/ \E read \in CookieReads : ProxyReturn(read)
    \/ FollowRedirect
    \/ \E lookup \in SessionLookups : getServerSession(lookup)

SpecProxy == InitProxy /\ [][NextProxy]_vars

\* ------------------------------------------- the reconciliation alone
\* Provider descriptors the effect may be run against.
MaxVideosCap == 2

Descriptors ==
    { Provider("p", 5, maxDur, ratios, multi, maxV, img, neg, durs) :
        maxDur \in {4, 6},
        ratios \in { <<>>, <<"16:9">>, <<"9:16", "1:1">> },
        multi \in BOOLEAN,
        maxV \in 0..MaxVideosCap,
        img \in BOOLEAN,
        neg \in BOOLEAN,
        durs \in { <<>>, <<6, 3>> } }

InitReconcile ==
    /\ providers \in { <<>> } \cup { <<P>> : P \in Descriptors }
    /\ provider = InitialProvider(providers)
    /\ prompt = <<"a">>
    /\ negativePrompt \in TypedNegativePrompts
    /\ numberOfVideos \in 1..MaxCount
    /\ aspectRatio \in {"16:9", "9:16", "4:3"}
    /\ durationSeconds \in 3..MaxTypedDuration
    /\ conditioningImage \in {Null, "ref.png"}
    /\ veo3Model = "veo3-quality"
    /\ veo3Resolution = "720p"
    /\ veo3Audio = TRUE
    /\ GenInit
    /\ sessionState = "session"
    /\ mounted = FALSE
    /\ edits = 0
    /\ MemoInit
    /\ ProxyInit

NextReconcile == RunEffect

SpecReconcile == InitReconcile /\ [][NextReconcile]_vars

\* ------------------------------------------------ the cost memos alone
CostPerSecondValues == {0, 3, 5}

InitCost ==
    /\ providers \in { <<>> } \cup
          { <<Provider("p", cps, 6, <<"16:9">>, TRUE, 2, TRUE, TRUE, <<>>)>> :
              cps \in CostPerSecondValues }
    /\ provider = InitialProvider(providers)
    /\ prompt = <<>>
    /\ negativePrompt = <<>>
    /\ numberOfVideos \in (-1)..MaxCount
    /\ aspectRatio = "16:9"
    /\ durationSeconds \in 3..MaxTypedDuration
    /\ conditioningImage = Null
    /\ veo3Model = "veo3-fast"
    /\ veo3Resolution = "720p"
    /\ veo3Audio = TRUE
    /\ GenInit
    /\ sessionState = "session"
    /\ mounted = TRUE
    /\ edits = 0
    /\ MemoInit
    /\ ProxyInit

NextCost == EvalCostMemo

SpecCost == InitCost /\ [][NextCost]_vars

\* ------------------------------------------- the prompt heuristic alone
\* n copies of the sequence s, one after the other
RECURSIVE Repeat(_, _)
Repeat(s, n) == IF n <= 0 THEN <<>> ELSE s \o Repeat(s, n - 1)

\* A prompt of n words, each word the characters of word, separated by sep,
\* with lead before the first word and trail after the last.
MakePrompt(lead, word, sep, n, trail) ==
    lead \o (IF n = 0 THEN <<>> ELSE word \o Repeat(sep \o word, n - 1)) \o trail

PromptInputs ==
    { MakePrompt(lead, word, sep, n, trail) :
        lead \in { <<>>, <<" ">> },
        word \in { <<"a">>, <<"a", "b">> },
        sep \in { <<" ">>, <<" ", "\n">>, <<"\t">> },
        n \in 0..MaxWords,
        trail \in { <<>>, <<"\n", " ">> } }

InitPrompt ==
    /\ providers = getAllProviders
    /\ provider = InitialProvider(providers)
    /\ prompt \in PromptInputs
    /\ negativePrompt = <<>>
    /\ numberOfVideos = 1
    /\ aspectRatio = "16:9"
    /\ durationSeconds = 5
    /\ conditioningImage = Null
    /\ veo3Model = "veo3-fast"
    /\ veo3Resolution = "720p"
    /\ veo3Audio = TRUE
    /\ GenInit
    /\ sessionState = "session"
    /\ mounted = TRUE
    /\ edits = 0
    /\ MemoInit
    /\ ProxyInit

NextPrompt == EvalInsightsMemo

SpecPrompt == InitPrompt /\ [][NextPrompt]_vars

\* ================================================================ claims
\* The prompt consists of whitespace only (or is empty).
IsBlank(s) == \A i \in 1..Len(s) : IsSpace(s[i])

\* The upper end of the video count range a provider declares.
DeclaredMaxVideos(P) ==
    IF P.capabilities.supportsMultipleVideos /\ P.capabilities.maxVideos # 0
    THEN P.capabilities.maxVideos
    ELSE 1

\* C1: after the reconciliation effect has run against provider P, the video
\* count lies in [1, P.maxVideos] ([1, 1] when P disallows multiple videos or
\* declares no maxVideos), the aspect ratio is one of P's supported ratios
\* when P lists any, and the duration is a member of P's discrete durations
\* or at most P.maxDuration.
C1_ReconciledWithinBounds ==
    (mounted /\ selectedProvider # NoProvider) =>
        LET P == selectedProvider
        IN  /\ numberOfVideos >= 1
            /\ numberOfVideos <= DeclaredMaxVideos(P)
            /\ Len(P.supportedAspectRatios) > 0 =>
                   aspectRatio \in {P.supportedAspectRatios[i] :
                                       i \in 1..Len(P.supportedAspectRatios)}
            /\ \/ durationSeconds \in
                     {P.capabilities.supportedDurations[i] :
                        i \in 1..Len(P.capabilities.supportedDurations)}
               \/ durationSeconds <= P.maxDuration

\* A reconciled state in which the count was clamped to the provider's
\* maximum and the duration replaced by the first allowed one, which lies
\* above maxDuration.
C1_Witness ==
    /\ mounted
    /\ selectedProvider # NoProvider
    /\ selectedProvider.capabilities.supportsMultipleVideos
    /\ selectedProvider.capabilities.maxVideos = 2
    /\ numberOfVideos = 2
    /\ selectedProvider.maxDuration = 4
    /\ durationSeconds = 6
    /\ aspectRatio = "9:16"

\* The pathnames of RequestPaths that are on the public allow-list: the
\* root, the paths under /auth/ and the paths under /api/auth/.
AllowListedRequestPaths ==
    { Slash,
      Slash \o AuthSeg \o Slash,
      Slash \o AuthSeg \o Slash \o SigninSeg,
      Slash \o AuthSeg \o Slash \o <<"e", "r", "r", "o", "r">>,
      Slash \o ApiSeg \o Slash \o AuthSeg \o Slash,
      Slash \o ApiSeg \o Slash \o AuthSeg \o Slash \o
          <<"c", "a", "l", "l", "b", "a", "c", "k">> }

\* proxy has returned a response for a session lookup that returned
ProxyAnswered ==
    /\ proxyPc = "done"
    /\ cookieRead \in {"null", "session-without-user", "session-with-user"}

\* C2: proxy redirects (to /auth/signin) exactly when the request carries no
\* session user and its path is not on the public allow-list; allow-listed
\* paths pass through with or without a session, and requests with a session
\* user are never redirected.
C2_RedirectIffUnauthenticatedProtected ==
    ProxyAnswered =>
        LET authenticated == cookieRead = "session-with-user"
            allowed == req.pathname \in AllowListedRequestPaths
        IN  /\ (resp.kind = "redirect") <=> (~authenticated /\ ~allowed)
            /\ resp.kind = "redirect" => resp.location = SignInPath
            /\ resp.kind # "redirect" => resp = NextResponse
            /\ allowed => resp = NextResponse
            /\ authenticated => resp.kind # "redirect"

\* An unauthenticated request to a protected page other than the generation
\* endpoint was redirected.
C2_Witness ==
    /\ ProxyAnswered
    /\ cookieRead = "null"
    /\ req.pathname = Slash \o StudioSeg
    /\ resp = RedirectResponse(SignInPath)

\* C3: when handleGenerate runs with a prompt that is blank after trimming,
\* nothing is submitted: isGenerating stays false, no request is sent, videos
\* and generationMeta keep their values, and message becomes the
\* prompt-required text.
C3_BlankPromptRejected ==
    [][(IsBlank(prompt) /\ handleGenerate) =>
          /\ ~isGenerating'
          /\ inflight' = inflight
          /\ requestsSent' = requestsSent
          /\ videos' = videos
          /\ generationMeta' = generationMeta
          /\ message' = PromptRequiredText]_vars

\* A whitespace-only prompt was rejected after an earlier successful run,
\* whose results are still shown.
C3_Witness ==
    /\ message = PromptRequiredText
    /\ prompt = <<" ">>
    /\ ~isGenerating
    /\ videos # <<>>
    /\ Has(generationMeta, "completedAt")

\* The orchestrator's terminal states, read off the component state.
Failed ==
    /\ ~isGenerating
    /\ Has(generationMeta, "error")
    /\ Has(generationMeta, "completedAt")
    /\ ~Has(generationMeta, "cost")

Succeeded ==
    /\ ~isGenerating
    /\ Has(generationMeta, "completedAt")
    /\ ~Has(generationMeta, "error")

\* What a parsed success response with body result leaves behind.
SucceededWith(result) ==
    /\ Succeeded
    /\ videos = (IF Has(result, "videos") THEN result.videos ELSE <<>>)
    /\ Has(generationMeta, "cost") <=> Has(result, "cost")
    /\ Has(result, "cost") => generationMeta.cost = result.cost

C5_ResolvesToInteractiveNoRetry ==
    [][/\ (inflight' # inflight /\ inflight' \subseteq inflight) =>
             /\ ~isGenerating'
             /\ requestsSent' = requestsSent
       /\ requestsSent' - requestsSent = submissions' - submissions
       /\ requestsSent' # requestsSent =>
             /\ requestsSent' = requestsSent + 1
             /\ Cardinality(inflight' \ inflight) = 1
             /\ \A q \in inflight' \ inflight : q.url = "/api/generate-video"]_vars

\* A request that failed has left the form interactive, one request sent.
C5_Witness ==
    /\ ~isGenerating
    /\ inflight = {}
    /\ Has(generationMeta, "error")
    /\ requestsSent = 1
    /\ submissions = 1
    /\ message = FailedText

\* The orchestrator's state, read off the component state.
Phase ==
    IF isGenerating THEN "submitting"
    ELSE IF generationMeta = NullMeta THEN "idle"
    ELSE IF Has(generationMeta, "error") THEN "failed"
    ELSE "succeeded"

\* C6: a submission with a non-blank prompt is accepted from idle, succeeded
\* and failed alike, and on entry to submitting videos is emptied and
\* generationMeta is replaced by a record of the provider id and the new
\* start timestamp only.
C6_SubmissionReplacesResults ==
    [][/\ ( /\ Phase \in {"idle", "succeeded", "failed"}
            /\ FormVisible
            /\ ~IsBlank(prompt)
            /\ submissions < MaxSubmissions ) => ENABLED GenerateSubmitted
       /\ submissions' # submissions =>
             /\ Phase' = "submitting"
             /\ videos' = <<>>
             /\ DOMAIN generationMeta' = {"provider", "startedAt"}
             /\ generationMeta'.provider = provider
             /\ generationMeta'.startedAt = now
             /\ Has(generationMeta, "startedAt") =>
                    generationMeta'.startedAt > generationMeta.startedAt]_vars

\* A second submission is under way after a first one that succeeded with
\* a cost: nothing of the first attempt is left.
C6_Witness ==
    /\ isGenerating
    /\ submissions = 2
    /\ videos = <<>>
    /\ generationMeta = [provider |-> provider, startedAt |-> 2]

\* The original wording of C7: while a request is in flight a second
\* submission can be started.
C7_Original ==
    ( /\ inflight # {}
      /\ FormVisible
      /\ ~IsBlank(prompt)
      /\ submissions < MaxSubmissions ) => ENABLED GenerateSubmitted

\* C7 (amended): concurrent submissions are guarded against by the Generate
\* button, which is disabled while isGenerating: while a request is in flight
\* handleGenerate cannot run, so requests never overlap, and the response of
\* the one request in flight determines videos, generationMeta and message.
C7_NoSubmissionWhileInFlight ==
    [][/\ inflight # {} => ~ENABLED handleGenerate
       /\ (inflight' # inflight /\ inflight' \subseteq inflight) =>
             /\ inflight' = {}
             /\ \A r \in inflight : generationMeta'.startedAt = r.startedAt
             /\ message' \notin {GeneratingText, PromptRequiredText}]_vars

\* The form is shown with a usable prompt while a request is in flight.
C7_Witness ==
    /\ inflight # {}
    /\ FormVisible
    /\ ~IsBlank(prompt)
    /\ submissions < MaxSubmissions

\* The fields every payload carries, and the provider-specific ones.
CommonFields ==
    {"prompt", "negativePrompt", "numberOfVideos", "aspectRatio",
     "durationSeconds", "provider"}
Veo3FieldNames == {"veo3Model", "veo3Resolution", "veo3Audio"}

\* C8: the payload of every submission contains prompt, negativePrompt,
\* numberOfVideos, aspectRatio, durationSeconds and provider; it contains
\* veo3Model, veo3Resolution and veo3Audio iff the selected provider is
\* 'veo-3', and conditioningImage iff a reference image is held in the form
\* state.
C8_PayloadFields ==
    [][submissions' # submissions =>
          \A q \in inflight' \ inflight :
              LET fields == DOMAIN q.body
              IN  /\ CommonFields \subseteq fields
                  /\ fields \subseteq
                        CommonFields \cup Veo3FieldNames \cup {"conditioningImage"}
                  /\ q.body.provider = provider
                  /\ q.body.prompt = prompt
                  /\ IF provider = "veo-3"
                     THEN Veo3FieldNames \subseteq fields
                     ELSE Veo3FieldNames \cap fields = {}
                  /\ ("conditioningImage" \in fields) <=> (conditioningImage # Null)
                  /\ conditioningImage # Null =>
                        q.body.conditioningImage = conditioningImage]_vars

\* A request in flight for a provider other than veo-3, without the veo-3
\* fields and without an image, sent while the veo-3 options were changed.
C8_Witness ==
    \E q \in inflight :
        /\ q.body.provider = "runway"
        /\ DOMAIN q.body = CommonFields
        /\ veo3Model = "veo3-quality"

\* C9: the estimated total cost is the per-video estimate (cost per second
\* times duration) times max(1, numberOfVideos): estimate * n for n >= 1,
\* the single-video estimate for n < 1, and 0 when no provider is selected.
C9_TotalCost ==
    (~Has(costMemo, "stale")) =>
        IF Len(providers) = 0
        THEN costMemo.total = 0
        ELSE LET estimate == providers[1].pricing.costPerSecond * durationSeconds
             IN  /\ costMemo.perVideo = estimate
                 /\ numberOfVideos >= 1 => costMemo.total = estimate * numberOfVideos
                 /\ numberOfVideos < 1 => costMemo.total = estimate

\* The memo was evaluated for a count below one with a priced provider.
C9_Witness ==
    /\ ~Has(costMemo, "stale")
    /\ numberOfVideos = 0
    /\ costMemo.perVideo = 30
    /\ costMemo.total = 30

\* The number of words of s: the positions where a run of non-whitespace
\* characters ends.
WordCount(s) ==
    Cardinality({ i \in 1..Len(s) :
                    /\ ~IsSpace(s[i])
                    /\ (i = Len(s) \/ IsSpace(s[i + 1])) })

\* The tier the thresholds {0, 12, 30} assign to a word count.
TierOf(w) ==
    IF w = 0 THEN 0 ELSE IF w <= 11 THEN 1 ELSE IF w <= 29 THEN 2 ELSE 3

\* C10: the prompt heuristic depends on the number w of whitespace-separated
\* non-empty words only: tier 0 iff w = 0, tier 1 iff 1 <= w <= 11, tier 2
\* iff 12 <= w <= 29, tier 3 iff w >= 30.
C10_PromptTiers ==
    (~Has(insightsMemo, "stale")) =>
        LET w == WordCount(prompt)
        IN  /\ insightsMemo.words = w
            /\ insightsMemo.score = TierOf(w)
            /\ insightsMemo.quality =
                  CASE insightsMemo.score = 0 -> "Add a descriptive prompt"
                    [] insightsMemo.score = 1 -> "Needs more detail"
                    [] insightsMemo.score = 2 -> "Great start"
                    [] OTHER -> "Production ready"

\* The memo was evaluated on a prompt of exactly twelve words, surrounded
\* by whitespace.
C10_Witness ==
    /\ ~Has(insightsMemo, "stale")
    /\ insightsMemo.words = 12
    /\ insightsMemo.score = 2
    /\ Len(prompt) > 0
    /\ IsSpace(prompt[1])
    /\ IsSpace(prompt[Len(prompt)])

\* v brought into the range [lo, hi] (lo <= hi)
ClampInto(v, lo, hi) == IF v < lo THEN lo ELSE IF v > hi THEN hi ELSE v

\* The members of a list
Members(arr) == { arr[i] : i \in 1..Len(arr) }

\* C11: a run of the reconciliation against provider P sets the video count
\* to 1 when P disallows multiple videos, and otherwise to the previous count
\* clamped into [1, P.maxVideos].
C11_CountReconciled ==
    [][selectedProvider # NoProvider =>
          LET caps == selectedProvider.capabilities
          IN  /\ ~caps.supportsMultipleVideos => numberOfVideos' = 1
              /\ (caps.supportsMultipleVideos /\ caps.maxVideos >= 1) =>
                    numberOfVideos' = ClampInto(numberOfVideos, 1, caps.maxVideos)]_vars

\* The effect has run against a single-video provider that still declares
\* maxVideos = 2: the count is 1.
C11_Witness ==
    /\ mounted
    /\ selectedProvider # NoProvider
    /\ ~selectedProvider.capabilities.supportsMultipleVideos
    /\ selectedProvider.capabilities.maxVideos = 2
    /\ numberOfVideos = 1

\* C12: a run of the reconciliation against provider P replaces the duration
\* by the first allowed value when P declares a non-empty discrete list and
\* the current duration is not in it; in every other case the duration
\* becomes min(current duration, P.maxDuration).
C12_DurationReconciled ==
    [][selectedProvider # NoProvider =>
          LET P == selectedProvider
              allowed == P.capabilities.supportedDurations
          IN  IF allowed # <<>> /\ durationSeconds \notin Members(allowed)
              THEN durationSeconds' = Head(allowed)
              ELSE /\ durationSeconds' <= durationSeconds
                   /\ durationSeconds' <= P.maxDuration
                   /\ durationSeconds' \in {durationSeconds, P.maxDuration}]_vars

\* The effect has run against a provider whose discrete list holds a value
\* above maxDuration: a listed duration was cut down to maxDuration.
C12_Witness ==
    /\ mounted
    /\ selectedProvider # NoProvider
    /\ selectedProvider.capabilities.supportedDurations = <<6, 3>>
    /\ selectedProvider.maxDuration = 4
    /\ durationSeconds = 4

\* C13: a run of the reconciliation against provider P clears the reference
\* image exactly when P does not support a conditioning image and the
\* negative prompt exactly when P does not support negative prompts; a
\* supported input keeps its previous value.
C13_OptionalInputsReconciled ==
    [][selectedProvider # NoProvider =>
          LET caps == selectedProvider.capabilities
          IN  /\ ~caps.supportsConditioningImage => conditioningImage' = Null
              /\ caps.supportsConditioningImage =>
                    conditioningImage' = conditioningImage
              /\ conditioningImage # Null =>
                    ((conditioningImage' = Null) <=> ~caps.supportsConditioningImage)
              /\ ~caps.supportsNegativePrompt => negativePrompt' = <<>>
              /\ caps.supportsNegativePrompt => negativePrompt' = negativePrompt
              /\ negativePrompt # <<>> =>
                    ((negativePrompt' = <<>>) <=> ~caps.supportsNegativePrompt)]_vars

\* The effect has run against a provider with image support and without
\* negative prompts: the image is still attached, the text is gone.
C13_Witness ==
    /\ mounted
    /\ selectedProvider # NoProvider
    /\ selectedProvider.capabilities.supportsConditioningImage
    /\ ~selectedProvider.capabilities.supportsNegativePrompt
    /\ conditioningImage = "ref.png"
    /\ negativePrompt = <<>>

\* C14: a run of the reconciliation never changes the prompt or the veo-3
\* options, and leaves the count, the aspect ratio and the duration alone
\* when they are already valid for the provider (count in [1, maxVideos]
\* with multiple videos supported; ratio in the supported list; duration in
\* the discrete list, or at most maxDuration when there is no list).
C14_ValidFieldsUntouched ==
    [][selectedProvider # NoProvider =>
          LET P == selectedProvider
              caps == P.capabilities
          IN  /\ UNCHANGED <<prompt, veo3Model, veo3Resolution, veo3Audio>>
              /\ ( /\ caps.supportsMultipleVideos
                   /\ numberOfVideos >= 1
                   /\ numberOfVideos <= caps.maxVideos ) =>
                      numberOfVideos' = numberOfVideos
              /\ aspectRatio \in Members(P.supportedAspectRatios) =>
                      aspectRatio' = aspectRatio
              /\ ( \/ durationSeconds \in Members(caps.supportedDurations)
                   \/ /\ caps.supportedDurations = <<>>
                      /\ durationSeconds <= P.maxDuration ) =>
                      durationSeconds' = durationSeconds]_vars

\* C17: running the reconciliation again against the same provider changes
\* nothing: reconcile(reconcile(s, P), P) = reconcile(s, P).
C17_ReconcileIdempotent ==
    [][mounted =>
          UNCHANGED <<numberOfVideos, conditioningImage, negativePrompt,
                      aspectRatio, durationSeconds>>]_vars

\* C15: the component renders the sign-in prompt instead of the form when
\* there is no session (and a spinner while the session is pending), so
\* handleGenerate can run, and a request can be sent, only in a render that
\* has a session; the decision follows every change of the session value.
C15_SessionGate ==
    [][/\ sessionState = "none" => Screen = "signin"
       /\ sessionState # "session" => ~ENABLED handleGenerate
       /\ sessionState' # "session" => ~(ENABLED handleGenerate)'
       /\ (requestsSent' # requestsSent \/ inflight' \ inflight # {}) =>
             sessionState = "session"
       /\ (message' # message /\ message' = PromptRequiredText) =>
             sessionState = "session"]_vars

\* The session was lost after the form was mounted and a prompt typed: the
\* sign-in prompt is shown although the form state is ready to submit.
C15_Witness ==
    /\ mounted
    /\ sessionState = "none"
    /\ ~IsBlank(prompt)
    /\ ~isGenerating
    /\ submissions < MaxSubmissions

\* C18: there is no timeout, retry or cancellation: while submitting
\* (isGenerating true, message 'Generating...') the only step that leaves
\* the state is the resolution of the request in flight; every other step,
\* a session change included, leaves it submitting and sends nothing.
C18_SubmittingUntilResolved ==
    [][isGenerating =>
          /\ inflight # {}
          /\ message = GeneratingText
          /\ requestsSent' = requestsSent
          /\ inflight' \subseteq inflight
          /\ inflight' = inflight =>
                /\ isGenerating'
                /\ message' = GeneratingText
                /\ UNCHANGED <<videos, generationMeta>>]_vars

\* A request is still awaited after the session went away and the form was
\* edited: nothing has cancelled it.
C18_Witness ==
    /\ isGenerating
    /\ message = GeneratingText
    /\ inflight # {}
    /\ sessionState = "none"
    /\ edits = MaxEdits

\* C19: every submitted payload carries a numberOfVideos within
\* [1, maxVideos] of the provider the payload names (exactly 1 when that
\* provider does not support multiple videos).
C19_PayloadCountWithinProviderLimit ==
    \A q \in inflight :
        LET P == selectedProviderOf(providers, q.body.provider)
        IN  /\ P # NoProvider
            /\ \E n \in 1..DeclaredMaxVideos(P) :
                   q.body.numberOfVideos = ToString(n)

\* C20: at most one request is in flight at any time: isGenerating is true
\* exactly from the acceptance of a submission until its request resolves,
\* the Generate button is disabled for that whole time, and no handleGenerate
\* step is taken before the request has resolved.
C20_SingleFlight ==
    [][/\ Cardinality(inflight) <= 1
       /\ Cardinality(inflight') <= 1
       /\ isGenerating <=> inflight # {}
       /\ isGenerating' <=> inflight' # {}
       /\ isGenerating => ~GenerateEnabled
       /\ inflight # {} =>
             /\ inflight' \subseteq inflight
             /\ submissions' = submissions
             /\ ~(message' # message /\ message' = PromptRequiredText)]_vars

\* The second submission of a run is in flight alone, after the first one
\* resolved.
C20_Witness ==
    /\ Cardinality(inflight) = 1
    /\ \A q \in inflight : q.id = 2
    /\ requestsSent = 2
    /\ isGenerating

\* C16: a session read that fails is treated as "no session":
\* getServerSession returns null whenever its lookup throws, and the route
\* proxy answers a request whose cookie read failed as it answers a request
\* without a session, never with an unhandled error.
C16_FailedReadIsUnauthenticated ==
    /\ serverSession.lookup = "throws" => serverSession.returned = Null
    /\ (proxyPc = "done" /\ cookieRead = "throws") =>
          /\ resp # ErrorResponse
          /\ resp = ProxyDecision(req.pathname, Null)

\* C21: the route gate cannot loop: every redirect proxy issues goes to
\* /auth/signin, which is on the public allow-list, so the request that
\* follows a redirect is passed through whatever the session is, and no
\* chain of redirects is longer than one.
C21_NoRedirectLoop ==
    /\ hops <= 1
    /\ hops >= 1 => req.pathname = SignInPath
    /\ (proxyPc = "done" /\ resp.kind = "redirect") =>
          /\ hops = 0
          /\ resp.location = SignInPath
          /\ StartsWith(resp.location, AuthPrefix)
    /\ (hops >= 1 /\ proxyPc = "done") =>
          /\ resp.kind # "redirect"
          /\ cookieRead # "throws" => resp = NextResponse
          /\ ~ENABLED FollowRedirect

\* An unauthenticated client followed the redirect issued for a protected
\* path and was passed through on /auth/signin.
C21_Witness ==
    /\ hops = 1
    /\ proxyPc = "done"
    /\ cookieRead = "null"
    /\ req.pathname = SignInPath
    /\ resp = NextResponse

====
